---- MODULE Spec2Model ----
(***************************************************************************)
(* locked_opt_queue<T> (ThreadSafeQueue.hpp): a std::queue guarded by one  *)
(* std::mutex and one std::condition_variable, with a one-way m_joined     *)
(* flag.  Threads call push / wait_pop / get / stop / join / empty / size  *)
(* / complete and the destructor.  Every critical section is modelled as   *)
(* an acquisition step followed by the statements executed while the lock  *)
(* is held; statements executed after lock.unlock() are steps of their own.*)
(***************************************************************************)
EXTENDS Bags, FiniteSets, Integers, Sequences, TLC

\* ---- bounds of the model ------------------------------------------------
NumConsumers == 2      \* threads that call wait_pop / get
MaxPush == 2           \* push calls that may append (bounds the buffer and the histories)

\* One thread pushes, one thread controls the queue (stop / join / empty / size /
\* complete / the destructor), NumConsumers threads pop.
Producers == {1}
Controllers == {2}
Consumers == 3..(2 + NumConsumers)
Threads == Producers \cup Consumers \cup Controllers

\* T is opaque to the queue: the k-th value appended is k, so that every
\* payload is told apart from every other
Values == 1..MaxPush

NoThread == 0          \* the mutex is free
None == 0              \* an empty std::optional<T>

VARIABLES
  m_queue,        \* std::queue<T> m_queue, front first
  m_joined,       \* std::atomic_bool m_joined
  m_mutex,        \* owner of m_mutex, or NoThread
  pc,             \* pc[t]: where thread t stands
  value,          \* value[t]: the argument of t's push call
  ret,            \* ret[t]: what t's last finished call returned
  pushed,         \* history: values appended by push, in append order
  delivered,      \* history: values removed by wait_pop / get, in removal order
  atStop,         \* history: m_queue when m_joined first became true
  deliveredAtStop,\* history: Len(delivered) when m_joined first became true
  stopCalls       \* history: stop() calls that have set m_joined, counted up to two

vars == <<m_queue, m_joined, m_mutex, pc, value, ret, pushed, delivered, atStop, deliveredAtStop, stopCalls>>

NoRet == [op |-> "none", val |-> None]
Ret(o, v) == [op |-> o, val |-> v]

\* Threads blocked inside m_condition.wait
BlockedPcs == {"wait_pop_blocked", "get_blocked", "join_blocked"}
waiting == {t \in Threads : pc[t] \in BlockedPcs}

\* Where a thread woken from m_condition.wait goes: it must reacquire the mutex
Relock(p) ==
  CASE p = "wait_pop_blocked" -> "wait_pop_relock"
    [] p = "get_blocked" -> "get_relock"
    [] p = "join_blocked" -> "join_relock"
    [] OTHER -> p

\* m_condition.notify_all(): every waiting thread leaves the wait
notify_all(p) == [t \in Threads |-> Relock(p[t])]

\* a notification that reaches nobody
notify_one_Lost(p, w) == p

\* m_condition.notify_one() waking thread w
notify_one(p, w) == [p EXCEPT ![w] = Relock(p[w])]

\* the object is being or has been destroyed: no member call may start
DtorPcs == {"dtor_locked", "dtor_notify", "destroyed"}
destroyed == \E t \in Threads : pc[t] \in DtorPcs

Init ==
  /\ m_queue = <<>>
  /\ m_joined = FALSE
  /\ m_mutex = NoThread
  /\ pc = [t \in Threads |-> "idle"]
  /\ value = [t \in Threads |-> None]
  /\ ret = [t \in Threads |-> NoRet]
  /\ pushed = <<>>
  /\ delivered = <<>>
  /\ atStop = <<>>
  /\ deliveredAtStop = 0
  /\ stopCalls = 0

\* m_condition.wait reacquires the mutex before it returns
Acquire(t, from, to) ==
  /\ pc[t] = from
  /\ m_mutex = NoThread
  /\ m_mutex' = t
  /\ pc' = [pc EXCEPT ![t] = to]
  /\ UNCHANGED <<m_queue, m_joined, value, ret, pushed, delivered, atStop, deliveredAtStop, stopCalls>>

\* the calling thread returns v from member function o, releasing the lock it holds
Return(t, o, v) ==
  /\ m_mutex = t
  /\ m_mutex' = NoThread
  /\ ret' = [ret EXCEPT ![t] = Ret(o, v)]
  /\ pc' = [pc EXCEPT ![t] = "idle"]

\* a wait that blocks without releasing the mutex
Block_KeepLock(t, to) ==
  /\ m_mutex = t
  /\ m_mutex' = m_mutex
  /\ pc' = [pc EXCEPT ![t] = to]
  /\ UNCHANGED ret

\* m_condition.wait(lock): release the mutex and block, atomically
Block(t, to) ==
  /\ m_mutex = t
  /\ m_mutex' = NoThread
  /\ pc' = [pc EXCEPT ![t] = to]
  /\ UNCHANGED ret

\* a member call starts with the constructor of its lock: the caller gets past
\* it when the mutex is free
Call(t, to) ==
  /\ pc[t] = "idle"
  /\ ~destroyed
  /\ m_mutex = NoThread
  /\ m_mutex' = t
  /\ pc' = [pc EXCEPT ![t] = to]
  /\ ret' = [ret EXCEPT ![t] = NoRet]
  /\ UNCHANGED <<m_queue, m_joined, pushed, delivered, atStop, deliveredAtStop, stopCalls>>

\* a flag that is flipped instead of set
SetJoined_Toggle ==
  /\ m_joined' = ~m_joined
  /\ IF m_joined
       THEN UNCHANGED <<atStop, deliveredAtStop>>
       ELSE /\ atStop' = m_queue
            /\ deliveredAtStop' = Len(delivered)

\* m_joined = true, with the history of the first time it happens
SetJoined ==
  /\ m_joined' = TRUE
  /\ IF m_joined
       THEN UNCHANGED <<atStop, deliveredAtStop>>
       ELSE /\ atStop' = m_queue
            /\ deliveredAtStop' = Len(delivered)

-----------------------------------------------------------------------------
\* push(T value)

push_call(t) ==
  /\ t \in Producers
  /\ Len(pushed) < MaxPush
  /\ value' = [value EXCEPT ![t] = Len(pushed) + 1]
  /\ Call(t, "push_locked")


\* a push that never looks at m_joined
PushRejected_Never == FALSE

\* a push that is refused only while stopped items are still being drained
PushRejected_WhileDraining == m_joined /\ m_queue # <<>>

\* if(m_joined)
PushRejected == m_joined

\* a push at the front instead of the back
QueuePush_Front(q, v) == <<v>> \o q

\* m_queue.push(std::move(value))
QueuePush(q, v) == Append(q, v)

\* lines 110-115: reject when joined, else append and unlock
push_locked(t) ==
  /\ pc[t] = "push_locked"
  /\ m_mutex = t
  /\ m_mutex' = NoThread
  /\ IF PushRejected
       THEN /\ ret' = [ret EXCEPT ![t] = Ret("push", FALSE)]
            /\ pc' = [pc EXCEPT ![t] = "idle"]
            /\ UNCHANGED <<m_queue, pushed>>
       ELSE /\ m_queue' = QueuePush(m_queue, value[t])
            /\ pushed' = Append(pushed, value[t])
            /\ pc' = [pc EXCEPT ![t] = "push_notify"]
            /\ UNCHANGED ret
  /\ value' = [value EXCEPT ![t] = None]
  /\ UNCHANGED <<m_joined, delivered, atStop, deliveredAtStop, stopCalls>>

\* lines 117-118: m_condition.notify_one(); return true
push_notify(t) ==
  /\ pc[t] = "push_notify"
  /\ \/ \E w \in waiting : pc' = [notify_one(pc, w) EXCEPT ![t] = "idle"]
     \/ waiting = {} /\ pc' = [pc EXCEPT ![t] = "idle"]
  /\ ret' = [ret EXCEPT ![t] = Ret("push", TRUE)]
  /\ UNCHANGED <<m_queue, m_joined, m_mutex, value, pushed, delivered, atStop, deliveredAtStop, stopCalls>>

-----------------------------------------------------------------------------
\* wait_pop()

wait_pop_call(t) ==
  /\ t \in Consumers
  /\ Call(t, "wait_pop_locked")
  /\ UNCHANGED value


\* an abandon test that lets a stopped queue drain, as get() does
wait_pop_stopped_Drain == m_joined /\ m_queue = <<>>

\* if (m_joined) return {};  (before and after the wait)
wait_pop_stopped == m_joined

\* a wait without its predicate: any wakeup ends it
wait_pop_pred_Any == TRUE

\* the wait predicate: !m_queue.empty() or m_joined
wait_pop_pred == m_queue # <<>> \/ m_joined

\* lines 55-63: wait while the predicate is false; then give up if joined
wait_pop_wait(t) ==
  IF wait_pop_pred
    THEN IF wait_pop_stopped
           THEN Return(t, "wait_pop", None)
           ELSE /\ pc' = [pc EXCEPT ![t] = "wait_pop_take"]
                /\ UNCHANGED <<m_mutex, ret>>
    ELSE Block(t, "wait_pop_blocked")

\* lines 49-63, entered with the lock just taken
wait_pop_locked(t) ==
  /\ pc[t] = "wait_pop_locked"
  /\ IF wait_pop_stopped
       THEN Return(t, "wait_pop", None)
       ELSE wait_pop_wait(t)
  /\ UNCHANGED <<m_queue, m_joined, value, pushed, delivered, atStop, deliveredAtStop, stopCalls>>

wait_pop_relock(t) == Acquire(t, "wait_pop_relock", "wait_pop_woken")

\* lines 55-63, re-entered after a wakeup with the lock reacquired
wait_pop_woken(t) ==
  /\ pc[t] = "wait_pop_woken"
  /\ wait_pop_wait(t)
  /\ UNCHANGED <<m_queue, m_joined, value, pushed, delivered, atStop, deliveredAtStop, stopCalls>>

\* m_queue.front(); on an empty queue the behaviour is undefined: any value
QueueFront(q) == IF q = <<>> THEN Values ELSE {Head(q)}

\* a front() that is not followed by pop()
QueuePop_Missing(q) == q

\* m_queue.pop()
QueuePop(q) == IF q = <<>> THEN <<>> ELSE Tail(q)

\* lines 65-68: T out = std::move(m_queue.front()); m_queue.pop(); return out;
wait_pop_take(t) ==
  /\ pc[t] = "wait_pop_take"
  /\ \E out \in QueueFront(m_queue) :
       /\ m_queue' = QueuePop(m_queue)
       /\ delivered' = Append(delivered, out)
       /\ Return(t, "wait_pop", out)
  /\ UNCHANGED <<m_joined, value, pushed, atStop, deliveredAtStop, stopCalls>>

-----------------------------------------------------------------------------
\* get()

get_call(t) ==
  /\ t \in Consumers
  /\ Call(t, "get_locked")
  /\ UNCHANGED value


\* a completion test that abandons on stop, as wait_pop() does
get_finished_Abandon == m_joined

\* if (m_joined and m_queue.size() == 0) return {};  (before and after the wait)
get_finished == m_joined /\ Len(m_queue) = 0

\* a wait without its predicate: any wakeup ends it
get_pred_Any == TRUE

\* the wait predicate: !m_queue.empty() or (m_joined and m_queue.empty())
get_pred == m_queue # <<>> \/ (m_joined /\ m_queue = <<>>)

\* lines 84-92: wait while the predicate is false; then give up if joined and empty
get_wait(t) ==
  IF get_pred
    THEN IF get_finished
           THEN Return(t, "get", None)
           ELSE /\ pc' = [pc EXCEPT ![t] = "get_take"]
                /\ UNCHANGED <<m_mutex, ret>>
    ELSE Block(t, "get_blocked")

\* lines 78-92, entered with the lock just taken
get_locked(t) ==
  /\ pc[t] = "get_locked"
  /\ IF get_finished
       THEN Return(t, "get", None)
       ELSE get_wait(t)
  /\ UNCHANGED <<m_queue, m_joined, value, pushed, delivered, atStop, deliveredAtStop, stopCalls>>

get_relock(t) == Acquire(t, "get_relock", "get_woken")

\* lines 84-92, re-entered after a wakeup with the lock reacquired
get_woken(t) ==
  /\ pc[t] = "get_woken"
  /\ get_wait(t)
  /\ UNCHANGED <<m_queue, m_joined, value, pushed, delivered, atStop, deliveredAtStop, stopCalls>>

\* lines 94-98: front, pop, m_condition.notify_all(), return out
get_take(t) ==
  /\ pc[t] = "get_take"
  /\ m_mutex = t
  /\ \E out \in QueueFront(m_queue) :
       /\ m_queue' = QueuePop(m_queue)
       /\ delivered' = Append(delivered, out)
       /\ ret' = [ret EXCEPT ![t] = Ret("get", out)]
  /\ pc' = [notify_all(pc) EXCEPT ![t] = "idle"]
  /\ m_mutex' = NoThread
  /\ UNCHANGED <<m_joined, value, pushed, atStop, deliveredAtStop, stopCalls>>

-----------------------------------------------------------------------------
\* stop() and the destructor, which calls it

stop_call(t) ==
  /\ t \in Controllers
  /\ Call(t, "stop_locked")
  /\ UNCHANGED value


\* lines 147-150: lock, m_joined = true, unlock
stop_body(t, to) ==
  /\ m_mutex = t
  /\ SetJoined
  /\ stopCalls' = IF stopCalls < 2 THEN stopCalls + 1 ELSE stopCalls
  /\ m_mutex' = NoThread
  /\ pc' = [pc EXCEPT ![t] = to]
  /\ UNCHANGED <<m_queue, value, ret, pushed, delivered>>

stop_locked(t) ==
  /\ pc[t] = "stop_locked"
  /\ stop_body(t, "stop_notify")

\* a stop() that sets the flag and wakes nobody
stop_wake_Silent(t, to) ==
  /\ pc' = [pc EXCEPT ![t] = to]
  /\ UNCHANGED <<m_queue, m_joined, m_mutex, value, pushed, delivered, atStop, deliveredAtStop, stopCalls>>

\* line 152: m_condition.notify_all(), then the call ends at `to`
stop_wake(t, to) ==
  /\ pc' = [notify_all(pc) EXCEPT ![t] = to]
  /\ UNCHANGED <<m_queue, m_joined, m_mutex, value, pushed, delivered, atStop, deliveredAtStop, stopCalls>>

stop_notify(t) ==
  /\ pc[t] = "stop_notify"
  /\ ret' = [ret EXCEPT ![t] = Ret("stop", None)]
  /\ stop_wake(t, "idle")

\* ~locked_opt_queue() { stop(); }
dtor_call(t) ==
  /\ t \in Controllers
  /\ Call(t, "dtor_locked")
  /\ UNCHANGED value


dtor_locked(t) ==
  /\ pc[t] = "dtor_locked"
  /\ stop_body(t, "dtor_notify")

dtor_notify(t) ==
  /\ pc[t] = "dtor_notify"
  /\ UNCHANGED ret
  /\ stop_wake(t, "destroyed")

-----------------------------------------------------------------------------
\* join()

join_call(t) ==
  /\ t \in Controllers
  /\ Call(t, "join_locked")
  /\ UNCHANGED value


\* a predicate that forgets the buffer
join_pred_JoinedOnly(joined, queue) == joined

\* the wait predicate: m_joined and m_queue.empty()
join_pred(joined, queue) == joined /\ queue = <<>>

\* lines 166-171: wait while the predicate is false, then return
join_wait(t, joined) ==
  IF join_pred(joined, m_queue)
    THEN Return(t, "join", None)
    ELSE Block(t, "join_blocked")

\* lines 158-170: m_joined = true; return if empty, else wait for the predicate
join_locked(t) ==
  /\ pc[t] = "join_locked"
  /\ SetJoined
  /\ IF Len(m_queue) = 0
       THEN Return(t, "join", None)
       ELSE join_wait(t, m_joined')
  /\ UNCHANGED <<m_queue, value, pushed, delivered, stopCalls>>

join_relock(t) == Acquire(t, "join_relock", "join_woken")

\* a join() that empties the buffer itself instead of waiting for the consumers
join_woken_Drains(t) ==
  /\ pc[t] = "join_woken"
  /\ m_queue' = <<>>
  /\ Return(t, "join", None)
  /\ UNCHANGED <<m_joined, value, pushed, delivered, atStop, deliveredAtStop, stopCalls>>

\* lines 166-171, re-entered after a wakeup with the lock reacquired
join_woken(t) ==
  /\ pc[t] = "join_woken"
  /\ join_wait(t, m_joined)
  /\ UNCHANGED <<m_queue, m_joined, value, pushed, delivered, atStop, deliveredAtStop, stopCalls>>

-----------------------------------------------------------------------------
\* empty(), size(), complete()

empty_call(t) ==
  /\ t \in Controllers
  /\ Call(t, "empty_locked")
  /\ UNCHANGED value


empty_locked(t) ==
  /\ pc[t] = "empty_locked"
  /\ Return(t, "empty", m_queue = <<>>)
  /\ UNCHANGED <<m_queue, m_joined, value, pushed, delivered, atStop, deliveredAtStop, stopCalls>>

size_call(t) ==
  /\ t \in Controllers
  /\ Call(t, "size_locked")
  /\ UNCHANGED value


size_locked(t) ==
  /\ pc[t] = "size_locked"
  /\ Return(t, "size", Len(m_queue))
  /\ UNCHANGED <<m_queue, m_joined, value, pushed, delivered, atStop, deliveredAtStop, stopCalls>>

\* return m_joined and m_queue.empty();
complete == m_joined /\ m_queue = <<>>

complete_call(t) ==
  /\ t \in Controllers
  /\ Call(t, "complete_locked")
  /\ UNCHANGED value


complete_locked(t) ==
  /\ pc[t] = "complete_locked"
  /\ Return(t, "complete", complete)
  /\ UNCHANGED <<m_queue, m_joined, value, pushed, delivered, atStop, deliveredAtStop, stopCalls>>

-----------------------------------------------------------------------------
\* std::condition_variable::wait may return without a notification
spurious_wakeup(t) ==
  /\ pc[t] \in BlockedPcs
  /\ pc' = [pc EXCEPT ![t] = Relock(pc[t])]
  /\ UNCHANGED <<m_queue, m_joined, m_mutex, value, ret, pushed, delivered, atStop, deliveredAtStop, stopCalls>>

-----------------------------------------------------------------------------
Next ==
  \E t \in Threads :
    \/ push_call(t) \/ push_locked(t) \/ push_notify(t)
    \/ wait_pop_call(t) \/ wait_pop_locked(t)
    \/ wait_pop_relock(t) \/ wait_pop_woken(t) \/ wait_pop_take(t)
    \/ get_call(t) \/ get_locked(t)
    \/ get_relock(t) \/ get_woken(t) \/ get_take(t)
    \/ stop_call(t) \/ stop_locked(t) \/ stop_notify(t)
    \/ dtor_call(t) \/ dtor_locked(t) \/ dtor_notify(t)
    \/ join_call(t) \/ join_locked(t)
    \/ join_relock(t) \/ join_woken(t)
    \/ empty_call(t) \/ empty_locked(t)
    \/ size_call(t) \/ size_locked(t)
    \/ complete_call(t) \/ complete_locked(t)
    \/ spurious_wakeup(t)

Spec == Init /\ [][Next]_vars

\* What a thread does on its own once it is inside a call: the statements it
\* runs with the lock held, its notification after unlocking, and taking the
\* mutex back after a wakeup.  Starting a call is the caller's choice and a
\* spurious wakeup is never owed, so neither is part of it.
Progress(t) ==
  \/ push_locked(t) \/ push_notify(t)
  \/ wait_pop_locked(t) \/ wait_pop_relock(t) \/ wait_pop_woken(t) \/ wait_pop_take(t)
  \/ get_locked(t) \/ get_relock(t) \/ get_woken(t) \/ get_take(t)
  \/ stop_locked(t) \/ stop_notify(t)
  \/ dtor_locked(t) \/ dtor_notify(t)
  \/ join_locked(t) \/ join_relock(t) \/ join_woken(t)
  \/ empty_locked(t) \/ size_locked(t) \/ complete_locked(t)

\* Fair scheduling: a running thread keeps running, and a thread that finds the
\* mutex free again and again eventually gets it.
FairSpec == Spec /\ \A t \in Threads : SF_vars(Progress(t))

-----------------------------------------------------------------------------
\* Properties

IsPrefix(s, q) == Len(s) <= Len(q) /\ SubSeq(q, 1, Len(s)) = s

SeqToBag(s) ==
  [v \in {s[i] : i \in DOMAIN s} |-> Cardinality({i \in DOMAIN s : s[i] = v})]

\* thread t's last finished call was o
Returned(t, o) == ret[t].op = o

\* thread t's step ends the part of its call it was in
Leaves(t, pcs) == pc[t] \in pcs /\ pc'[t] # pc[t]

\* what has been removed since m_joined first became true
drained == SubSeq(delivered, deliveredAtStop + 1, Len(delivered))

\* C1: the values removed by wait_pop() and get(), in removal order, are a
\* prefix of the values appended by push(), in append order.
C1_FifoPrefix == IsPrefix(delivered, pushed)

\* both pop variants have delivered, and two items went through in order
C1_Witness ==
  /\ Len(delivered) >= 2
  /\ \E t \in Consumers : Returned(t, "wait_pop") /\ ret[t].val # None
  /\ \E t \in Consumers : Returned(t, "get") /\ ret[t].val # None

\* C2: the multiset of appended values equals the multiset of delivered values
\* plus the buffer contents: nothing is lost and nothing is delivered twice.
C2_NoLossNoDup == SeqToBag(pushed) = SeqToBag(delivered) (+) SeqToBag(m_queue)

\* two consumers are in get() for one item: one has it, the other is blocked
C2_Witness ==
  /\ Len(pushed) = 1
  /\ \E t, u \in Consumers :
       /\ t # u
       /\ Returned(t, "get") /\ ret[t].val = 1
       /\ pc[u] = "get_blocked"

\* C3: a push() that runs with m_joined set returns false and leaves the buffer
\* and the flag alone; a push() appends, and later returns true, only with
\* m_joined clear under its lock.
C3_PushAfterStop ==
  [][\A t \in Producers :
       /\ Leaves(t, {"push_locked"}) =>
            /\ m_joined =>
                 /\ Returned(t, "push")' /\ ret'[t].val = FALSE
                 /\ UNCHANGED <<m_queue, m_joined>>
            /\ pc'[t] = "push_notify" => ~m_joined
            /\ ~m_joined => pc'[t] = "push_notify" /\ m_queue' = Append(m_queue, value[t])
       /\ (Returned(t, "push")' /\ ret'[t].val = TRUE /\ ~Returned(t, "push"))
            => pc[t] = "push_notify"]_vars

\* a push was refused on a stopped queue that still holds an item
C3_Witness ==
  /\ m_joined
  /\ m_queue # <<>>
  /\ \E t \in Producers : Returned(t, "push") /\ ret[t].val = FALSE

\* C4: once m_joined is true it is true in every later state.
C4_StoppedMonotonic == [][m_joined => m_joined']_vars

\* the flag was set by stop() and calls of both pop variants have ended since
C4_Witness ==
  /\ m_joined
  /\ \E t \in Controllers : Returned(t, "stop")
  /\ \E t \in Consumers : Returned(t, "wait_pop") /\ ret[t].val = None
  /\ Len(delivered) > deliveredAtStop

\* C5: once the queue is stopped and empty it stays stopped and empty, and a
\* complete() that returned true is followed only by such states.
C5_CompleteMonotonic ==
  /\ [][complete => complete']_vars
  /\ [](\A t \in Threads : (Returned(t, "complete") /\ ret[t].val = TRUE) => complete)

\* complete() returned true after items went through, and a push was then refused
C5_Witness ==
  /\ \E t \in Controllers : Returned(t, "complete") /\ ret[t].val = TRUE
  /\ \E t \in Producers : Returned(t, "push") /\ ret[t].val = FALSE
  /\ Len(delivered) >= 1

\* C6: after the stop, what is removed is a prefix of the buffer as it was when
\* m_joined became true, and once a get() has returned empty it is all of it.
C6_DrainAfterStop ==
  m_joined =>
    /\ IsPrefix(drained, atStop)
    /\ \A t \in Consumers :
         (Returned(t, "get") /\ ret[t].val = None) => drained = atStop

\* two items were buffered at the stop, get() drained them and then returned empty
C6_Witness ==
  /\ Len(atStop) = 2
  /\ drained = atStop
  /\ \E t \in Consumers : Returned(t, "get") /\ ret[t].val = None

\* C7: a get() that returns empty decided so with m_joined set and the buffer
\* empty; with the buffer non-empty it goes on to remove and return the head.
C7_GetDecision ==
  [][\A t \in Consumers :
       /\ Leaves(t, {"get_locked", "get_woken"}) =>
            /\ Returned(t, "get")' => (ret'[t].val = None /\ m_joined /\ m_queue = <<>>)
            /\ m_queue # <<>> => pc'[t] = "get_take"
       /\ Leaves(t, {"get_take"}) =>
            /\ m_queue # <<>>
            /\ Returned(t, "get")' /\ ret'[t].val = Head(m_queue)
            /\ m_queue' = Tail(m_queue)]_vars

\* a get() on a stopped queue returned an item
C7_Witness ==
  /\ m_joined
  /\ Len(drained) >= 1
  /\ \E t \in Consumers : Returned(t, "get") /\ ret[t].val # None

\* C8: a wait_pop() that runs with m_joined set returns empty and leaves the
\* buffer alone; wait_pop() removes an item only with m_joined clear.
C8_WaitPopAbandons ==
  [][\A t \in Consumers :
       Leaves(t, {"wait_pop_locked", "wait_pop_woken", "wait_pop_take"}) =>
         /\ m_joined =>
              /\ Returned(t, "wait_pop")' /\ ret'[t].val = None
              /\ m_queue' = m_queue
         /\ m_queue' # m_queue => ~m_joined]_vars

\* a wait_pop() returned empty on a stopped queue that still holds an item
C8_Witness ==
  /\ m_joined
  /\ m_queue # <<>>
  /\ \E t \in Consumers : Returned(t, "wait_pop") /\ ret[t].val = None

\* C9: when join() has returned, m_joined is set and the buffer is empty.
C9_JoinReturnsComplete ==
  \A t \in Threads : Returned(t, "join") => complete

\* join() found items, so it waited, and has returned after they were removed
C9_Witness ==
  /\ \E t \in Controllers : Returned(t, "join")
  /\ atStop # <<>>
  /\ drained = atStop

GetPcs == {"get_locked", "get_blocked", "get_relock", "get_woken", "get_take"}
JoinWaitPcs == {"join_blocked", "join_relock", "join_woken"}

\* a consumer is inside get()
InGet == \E t \in Consumers : pc[t] \in GetPcs

\* join() is waiting with items in the buffer
JoinWaiting == m_queue # <<>> /\ \E t \in Controllers : pc[t] \in JoinWaitPcs

\* C10: when join() waits with items in the buffer and a consumer is in get()
\* again and again, join() eventually returns, and the step that lets it return
\* finds the buffer empty.
C10_JoinEventuallyReturns ==
  /\ ([]<>InGet) => (JoinWaiting ~> (\E t \in Controllers : Returned(t, "join")))
  /\ [][\A t \in Controllers : Leaves(t, JoinWaitPcs) /\ Returned(t, "join")' => m_queue = <<>>]_vars

WaitPopPcs == {"wait_pop_locked", "wait_pop_blocked", "wait_pop_relock", "wait_pop_woken", "wait_pop_take"}

\* a stop() call, or the destructor's, has run to its end
StopCompleted == \E t \in Controllers : Returned(t, "stop") \/ pc[t] = "destroyed"

\* a consumer is blocked inside m_condition.wait
ConsumerBlocked(t) == pc[t] \in {"wait_pop_blocked", "get_blocked"}

\* C11: once stop() (or the destructor) has completed, no consumer is blocked
\* in the wait, every wait_pop() in progress eventually returns empty and every
\* get() in progress eventually returns.
C11_NoConsumerLeftBlocked ==
  /\ [](StopCompleted => \A t \in Consumers : ~ConsumerBlocked(t))
  /\ \A t \in Consumers :
       (StopCompleted /\ pc[t] \in WaitPopPcs)
          ~> (Returned(t, "wait_pop") /\ ret[t].val = None)
  /\ \A t \in Consumers :
       (StopCompleted /\ pc[t] \in GetPcs) ~> Returned(t, "get")

\* stop() has returned on an empty queue and has woken a wait_pop() and a get()
\* that were blocked: both still have to take the mutex back and return
C11_Witness ==
  /\ \E t \in Controllers : Returned(t, "stop")
  /\ pushed = <<>>
  /\ \E t, u \in Consumers : pc[t] = "wait_pop_relock" /\ pc[u] = "get_relock"

\* C12: a consumer that is blocked on an empty queue when m_joined becomes true,
\* whether stop() or join() set it, is woken and eventually returns empty.
C12_WokenWhenStopped ==
  \A t \in Consumers :
    (m_joined /\ m_queue = <<>> /\ ConsumerBlocked(t))
       ~> ((Returned(t, "wait_pop") \/ Returned(t, "get")) /\ ret[t].val = None)

C14_DeliversOnWake ==
  [][\A t \in Consumers :
       (Leaves(t, {"wait_pop_woken"}) /\ m_queue # <<>>) => pc'[t] = "wait_pop_take"]_vars

\* C14 as amended: a wait_pop() that wakes from its wait with an item in the
\* buffer delivers the head if m_joined is clear; if m_joined is set it returns
\* empty and leaves the item where it is.
C14_DeliversOnWakeUnlessStopped ==
  [][\A t \in Consumers :
       /\ (Leaves(t, {"wait_pop_woken"}) /\ m_queue # <<>>) =>
            IF m_joined
              THEN /\ Returned(t, "wait_pop")' /\ ret'[t].val = None
                   /\ m_queue' = m_queue
              ELSE /\ pc'[t] = "wait_pop_take"
                   /\ m_queue' = m_queue
       /\ Leaves(t, {"wait_pop_take"}) =>
            /\ ~m_joined /\ m_queue # <<>>
            /\ Returned(t, "wait_pop")' /\ ret'[t].val = Head(m_queue)
            /\ m_queue' = Tail(m_queue)]_vars

\* a wait_pop() has woken from its wait and holds the lock again, with an item
\* in the buffer and the queue stopped in the meantime
C14_Witness ==
  \E t \in Consumers : pc[t] = "wait_pop_woken" /\ m_joined /\ m_queue # <<>>

\* the buffer holds an item while a consumer is blocked in the wait
Starved == m_queue # <<>> /\ \E t \in Consumers : ConsumerBlocked(t)

\* C15: on a queue that is never stopped, the buffer does not stay non-empty
\* for ever while a consumer is blocked, and from any such state an item is
\* eventually removed.
C15_NoLostWakeup ==
  ([]~m_joined) =>
    /\ []<>~Starved
    /\ \A n \in 0..MaxPush : (Starved /\ Len(delivered) = n) ~> (Len(delivered) > n)

\* push has returned true on a running queue; the consumer it woke has yet to
\* take the mutex back, another consumer is still blocked, the item is buffered
C15_Witness ==
  /\ ~m_joined
  /\ m_queue # <<>>
  /\ \E t \in Producers : Returned(t, "push") /\ ret[t].val = TRUE
  /\ \E t, u \in Consumers : pc[t] = "wait_pop_blocked" /\ pc[u] = "get_relock"

\* the places of the code at which the calling thread owns a lock on m_mutex
HoldingPcs ==
  {"push_locked", "wait_pop_locked", "wait_pop_woken", "wait_pop_take",
   "get_locked", "get_woken", "get_take", "stop_locked", "dtor_locked",
   "join_locked", "join_woken", "empty_locked", "size_locked", "complete_locked"}

Holders == {t \in Threads : pc[t] \in HoldingPcs}

\* C16: at most one thread is at a place where it holds the mutex, and it is the
\* owner of m_mutex; a thread waiting on the condition variable does not hold
\* it; every step that changes m_queue or m_joined is a step of the holder.
C16_MutexDiscipline ==
  /\ [](/\ Cardinality(Holders) <= 1
        /\ Holders = IF m_mutex = NoThread THEN {} ELSE {m_mutex}
        /\ \A t \in Threads : pc[t] \in BlockedPcs => m_mutex # t)
  /\ [][(m_queue' # m_queue \/ m_joined' # m_joined) =>
          (m_mutex # NoThread /\ Leaves(m_mutex, HoldingPcs))]_vars

\* one thread waits on the condition variable while another one holds the mutex
\* in push() and is about to append
C16_Witness ==
  /\ m_mutex # NoThread
  /\ pc[m_mutex] = "push_locked"
  /\ ~m_joined
  /\ \E t \in Threads : pc[t] \in BlockedPcs /\ t # m_mutex

\* the places from which a controller thread takes a step of its own
ControllerStepPcs ==
  {"idle", "stop_locked", "stop_notify", "dtor_locked", "dtor_notify",
   "join_locked", "join_relock", "join_woken",
   "empty_locked", "size_locked", "complete_locked"}

\* thread t takes a step of join(), stop(), the destructor, empty(), size() or complete()
ControllerStep(t) ==
  /\ pc[t] \in ControllerStepPcs
  /\ pc'[t] # pc[t]
  /\ \A u \in Threads \ {t} : pc'[u] = pc[u] \/ pc[u] \in BlockedPcs

\* C17: no step of join(), stop(), empty(), size() or complete() changes the
\* buffer; the buffer changes only by push() appending one value or by
\* wait_pop() / get() removing the head.
C17_BufferFrame ==
  [][/\ \A t \in Controllers : ControllerStep(t) => m_queue' = m_queue
     /\ m_queue' # m_queue =>
          \/ \E t \in Producers :
               /\ pc[t] = "push_locked" /\ pc'[t] = "push_notify"
               /\ m_queue' = Append(m_queue, value[t])
          \/ \E t \in Consumers :
               /\ pc[t] \in {"wait_pop_take", "get_take"} /\ pc'[t] = "idle"
               /\ m_queue' = Tail(m_queue)]_vars

\* join() has been woken by a get() that removed an item; it holds the lock
\* again with another item still in the buffer
C17_Witness ==
  /\ \E t \in Controllers : pc[t] = "join_woken"
  /\ m_queue # <<>>
  /\ Len(drained) >= 1

\* C18: a consumer that stands before front() / pop() holds the lock and finds
\* the buffer non-empty.
C18_FrontOnNonEmpty ==
  \A t \in Consumers :
    pc[t] \in {"wait_pop_take", "get_take"} => (m_queue # <<>> /\ m_mutex = t)

\* a consumer stands before front() / pop() after another consumer has taken
\* an item
C18_Witness ==
  \E t, u \in Consumers :
    /\ t # u
    /\ pc[t] \in {"wait_pop_take", "get_take"}
    /\ Len(delivered) >= 1
    /\ (Returned(u, "get") \/ Returned(u, "wait_pop")) /\ ret[u].val # None

\* C19: while join() waits with items in the buffer, the only step that ends
\* that state is a get() removing the last item; so in a behaviour in which no
\* consumer ever is in get(), a join() that waits with items waits for ever.
C19_JoinNeedsGet ==
  /\ [][(JoinWaiting /\ ~JoinWaiting') =>
          \E t \in Consumers :
            /\ pc[t] = "get_take" /\ pc'[t] = "idle"
            /\ m_queue' = Tail(m_queue)]_vars
  /\ ([]~InGet) => [](JoinWaiting => []JoinWaiting)

\* join() waits with an item in the buffer, no consumer is in get(), and a
\* wait_pop() has returned empty
C19_Witness ==
  /\ JoinWaiting
  /\ ~InGet
  /\ \E t \in Consumers : Returned(t, "wait_pop") /\ ret[t].val = None

\* C20: a thread waiting inside join() sees m_joined set, and the notify_one of
\* a push() never wakes a thread blocked in join().
C20_JoinerNeverTakesPushNotify ==
  /\ [](\A t \in Controllers : pc[t] \in JoinWaitPcs => m_joined)
  /\ [][\A p \in Producers, t \in Controllers :
          (Leaves(p, {"push_notify"}) /\ pc[t] = "join_blocked")
             => pc'[t] = "join_blocked"]_vars
====
